---- MODULE Spec2Model ----
(***************************************************************************)
(* Model of MegaPortraits/scripts/train.py: the Trainer's training loop,   *)
(* the three per-variant training steps, the chunked encoder stages of the *)
(* base variant with their disk-backed intermediate store, and checkpoint  *)
(* save / load.  Neural components are black boxes applied per frame.      *)
(***************************************************************************)
EXTENDS Integers, Sequences, FiniteSets, TLC

\* ------------------------------------------------------------------ bounds
MaxFrames == 3          \* longest driving clip load_video returns
MaxChunkSize == 2       \* chunk_size values tried (the literal is scaled down)
MaxPool == 2            \* longest same-person / different-person pool
MaxBatches == 2         \* len(train_loader)
MaxEpochs == 2          \* config['epochs']
MaxInterval == 2        \* config['checkpoint_interval']
MaxLogInterval == 2     \* config['log_interval']
MaxIteration == 7       \* largest iteration index handed to the pair sampler
MaxCoverPool == 3       \* longest pool in the runs that look at pool coverage
MaxCoverBatches == 6    \* len(train_loader) in those runs: twice round a pool

VARIABLES
    model_type,             \* 'base' | 'highres' | 'student'
    config,                 \* resume, epochs, checkpoint_interval, log_interval
    num_batches,            \* len(self.train_loader)
    same_person_pairs,      \* dataset pool
    different_person_pairs, \* dataset pool
    files,                  \* checkpoint directory: artifact name -> contents
    store,                  \* intermediate_chunks directory: key -> host tensor
    restarted,              \* the process has been started a second time
    pc,                     \* position of the process
    err,                    \* exception that ended the run ("" when none)
    start_epoch, epoch, i,  \* locals of train()
    weights,                \* [G, D]: number of updates applied to each weight set
    optimizer,              \* [G, D]: number of steps each optimizer has taken
    attrs,                  \* attributes present on the Trainer object
    iteration,              \* the argument the training step receives
    sample_info,            \* the selected pool entry
    driving_frames,         \* list returned by load_video (after transform)
    target,                 \* flattened driving frames on the accelerator
    chunk_size, chunk_i,    \* locals of the chunk loops
    total_v_d, v_d,         \* reassembly of the appearance stage
    motion_encodings, e_d,  \* reassembly of the motion stage
    trace,                  \* history: optimisation events of the current iteration
    peak,                   \* history: most frames' worth of stage output resident at once
    global_iter,            \* history: iterations started in this run
    save_calls,             \* history: save_checkpoint calls of this run
    log_records,            \* history: (epoch, i) of the records logged in this run
    written_at,             \* history: artifact name -> loop epoch whose end wrote it
    resumed_from,           \* history: loop epoch that wrote the loaded artifact
    store_policy,           \* what the store does with a put on a held key
    output,                 \* reconstructed images of the current step
    grad,                   \* [G, D]: objectives whose gradient each parameter group holds
    io_log,                 \* history: store puts and gets of the current step
    epochs_run,             \* history: loop epochs entered in this run
    selected                \* history: the pairs the sampler picked in this run

vars == << model_type, config, num_batches, same_person_pairs,
           different_person_pairs, files, store, restarted, pc, err,
           start_epoch, epoch, i, weights, optimizer, attrs, iteration,
           sample_info, driving_frames, target, chunk_size, chunk_i,
           total_v_d, v_d, motion_encodings, e_d, trace, peak, global_iter,
           save_calls, log_records, written_at, resumed_from, store_policy,
           output, grad, io_log, epochs_run, selected >>

\* -------------------------------------------------------------- helpers
Min(a, b) == IF a < b THEN a ELSE b
Max(a, b) == IF a > b THEN a ELSE b

EmptyMap == [x \in {} |-> 0]

\* plain file / dict write: the entry is created or replaced
Write(m, k, v) == [x \in DOMAIN m \cup {k} |-> IF x = k THEN v ELSE m[x]]

RECURSIVE Cat_reversed(_)
Cat_reversed(list) ==
    IF list = << >> THEN << >> ELSE Cat_reversed(Tail(list)) \o Head(list)

\* torch.cat(list, dim=0)
RECURSIVE Cat(_)
Cat(list) == IF list = << >> THEN << >> ELSE Head(list) \o Cat(Tail(list))

\* tensor.view(batch_size, num_frames, ...) of a flat (batch*frames, ...) tensor
View(flat, batch_size, num_frames) ==
    [b \in 1..batch_size |->
        SubSeq(flat, (b - 1) * num_frames + 1, b * num_frames)]

\* tensor[lo:hi] on dimension 0, Python slice (0-based, hi exclusive, clipped)
Slice(t, lo, hi) == SubSeq(t, lo + 1, Min(hi, Len(t)))

\* a clip of n frames; frame k carries its temporal position k
Clip(n) == [k \in 1..n |-> k]

\* --------------------------------------------------- black-box components
\* AppearanceEncoder: one appearance code per input frame, in input order
AppearanceEncoder(batch) == [k \in 1..Len(batch) |-> << "v", batch[k] >>]

\* MotionEncoder: a 3-tuple (rotation, translation, latent), each with one
\* row per input frame, in input order
MotionEncoder(batch) ==
    << [k \in 1..Len(batch) |-> << "R", batch[k] >>],
       [k \in 1..Len(batch) |-> << "t", batch[k] >>],
       [k \in 1..Len(batch) |-> << "z", batch[k] >> ] >>

\* torch.stack(list): raises RuntimeError on an empty list
TorchStack_empty_ok(frames) == [ok |-> TRUE, value |-> frames]
TorchStack(frames) == [ok |-> frames # << >>, value |-> frames]

\* ------------------------------------------------------------ pair sampler
Pool(tag, n) == [k \in 1..n |-> [pool |-> tag, id |-> k - 1]]

\* the pools swapped: odd iterations draw from the same-person pool
PoolOf_swapped(it) == IF it % 2 = 0 THEN "different" ELSE "same"

\* if iteration % 2 == 0: same_person_pairs, else: different_person_pairs
PoolOf(it) == IF it % 2 = 0 THEN "same" ELSE "different"

PoolIndex_off_by_one(it, n) == it % (n + 1)
PoolIndex(it, n) == it % n

\* pool[iteration % len(pool)] of the pool chosen by iteration % 2:
\* ZeroDivisionError on an empty pool, IndexError outside 0..len-1
NextPair(it, same, different) ==
    LET pool == PoolOf(it)
        list == IF pool = "same" THEN same ELSE different
    IN  IF Len(list) = 0
        THEN [ok |-> FALSE, exc |-> "ZeroDivisionError", pool |-> pool,
              index |-> -1, entry |-> [pool |-> "none", id |-> -1]]
        ELSE LET idx == PoolIndex(it, Len(list))
             IN  IF idx >= 0 /\ idx < Len(list)
                 THEN [ok |-> TRUE, exc |-> "", pool |-> pool,
                       index |-> idx, entry |-> list[idx + 1]]
                 ELSE [ok |-> FALSE, exc |-> "IndexError", pool |-> pool,
                       index |-> idx, entry |-> [pool |-> "none", id |-> -1]]

NoSample == [ok |-> FALSE, exc |-> "", pool |-> "none", index |-> -1,
             entry |-> [pool |-> "none", id |-> -1]]

\* ------------------------------------------------------ intermediate store
\* a chunk key made of the frame offset instead of the chunk index
ChunkKey_by_offset(ci, c) == << "v_d_chunk", ci >>

\* save_intermediate(..., f'v_d_chunk_{i//chunk_size}')
ChunkKey(ci, c) == << "v_d_chunk", ci \div c >>

\* the read-back key names chunk 0 whatever the offset
ChunkLoadKey_zero(ci, c) == << "v_d_chunk", 0 >>

\* the read-back key names the chunk after the one at the offset
ChunkLoadKey_next(ci, c) == << "v_d_chunk", (ci \div c) + 1 >>

\* load_intermediate(f'v_d_chunk_{i//chunk_size}')
ChunkLoadKey(ci, c) == << "v_d_chunk", ci \div c >>

\* a motion key that does not tell the three components apart
MotionKey_no_sub(ci, c, j) == << "e_d_chunk", ci \div c, 0 >>

\* f'e_d_chunk_{i//chunk_size}_{j}'
MotionKey(ci, c, j) == << "e_d_chunk", ci \div c, j >>

\* utils.intermediate.save_intermediate: a put on a held key either fails
\* loudly or replaces the value, as the store is configured
SaveIntermediate(s, key, tensor) ==
    IF key \in DOMAIN s /\ store_policy = "reject"
    THEN [ok |-> FALSE, store |-> s]
    ELSE [ok |-> TRUE, store |-> Write(s, key, tensor)]

\* utils.intermediate.load_intermediate: the tensor held under key, on the device
LoadIntermediate(s, key) ==
    IF key \in DOMAIN s
    THEN [ok |-> TRUE, tensor |-> s[key]]
    ELSE [ok |-> FALSE, tensor |-> << >>]

\* -------------------------------------------------------------- checkpoints
\* f"{checkpoint_path}/{variant}_model_epoch_{epoch}.pth"
EpochArtifact(variant, e) == << variant, "epoch", e >>

\* f"{checkpoint_path}/{variant}_model_latest.pth"
LatestArtifact(variant) == << variant, "latest" >>

\* the dictionary save_checkpoint serialises
CheckpointState(w, o, e) ==
    [weights |-> w, optimizer_G |-> o.G, optimizer_D |-> o.D, epoch |-> e]

\* utils.checkpoint.save_checkpoint(state, filename): one artifact, at filename
SaveCheckpointFile(fs, name, state) == Write(fs, name, state)

\* (epoch + 1) % checkpoint_interval == 0
CheckpointDue_on_epoch(e, interval) == e % interval = 0
CheckpointDue(e, interval) == (e + 1) % interval = 0

\* the epoch value train() hands to save_checkpoint
SavedEpoch_same(e) == e
SavedEpoch(e) == e + 1

\* the iteration argument train() hands to the training step
IterationArg_global(it, g) == g
IterationArg(it, g) == it

\* attributes the constructor and the setup_* methods create
TrainerFields(variant) ==
    IF variant = "base"
    THEN {"appearance_encoder", "motion_encoder", "warping_generator_s",
          "warping_generator_d", "conv3d", "conv2d", "discriminator",
          "perceptual_loss", "adversarial_loss", "cycle_consistency_loss",
          "pairwise_loss", "cosine_similarity_loss", "optimizer_G",
          "optimizer_D", "logger"}
    ELSE IF variant = "highres"
    THEN {"model", "discriminator", "l1_loss", "perceptual_loss",
          "adversarial_loss", "cycle_consistency_loss", "optimizer_G",
          "optimizer_D", "logger"}
    ELSE {"model", "discriminator", "perceptual_loss", "adversarial_loss",
          "optimizer_G", "optimizer_D", "logger"}

\* frames' worth of stage output held on the accelerator by the reassembly
\* lists and the reassembled tensors
Resident(tvd, vd, me, ed) ==
    Len(Cat(tvd)) + Len(Cat(vd)) + Len(Cat(me[1])) + Len(ed[1])

\* ---------------------------------------------------------------- state
Variants == {"base", "highres", "student"}

envVars == << model_type, num_batches, same_person_pairs,
             different_person_pairs, store_policy >>
loopVars == << start_epoch, epoch, i >>
localVars == << iteration, sample_info, driving_frames, target, chunk_size,
                chunk_i, total_v_d, v_d, motion_encodings, e_d, io_log >>

NoTuple == << << >>, << >>, << >> >>

\* the locals of a training step before it has run
FreshLocals ==
    /\ sample_info' = NoSample
    /\ driving_frames' = << >>
    /\ target' = << >>
    /\ chunk_size' = 0
    /\ chunk_i' = 0
    /\ total_v_d' = << >>
    /\ v_d' = << >>
    /\ motion_encodings' = NoTuple
    /\ e_d' = NoTuple
    /\ output' = << >>
    /\ io_log' = << >>

\* Trainer(config, model_type); trainer.load_data(): a new process
FreshProcess(variant) ==
    /\ pc' = "train"
    /\ err' = ""
    /\ start_epoch' = 0
    /\ epoch' = 0
    /\ i' = 0
    /\ weights' = [G |-> 0, D |-> 0]
    /\ optimizer' = [G |-> 0, D |-> 0]
    /\ attrs' = TrainerFields(variant)
    /\ iteration' = 0
    /\ FreshLocals
    /\ trace' = << >>
    /\ peak' = 0
    /\ global_iter' = 0
    /\ save_calls' = << >>
    /\ log_records' = {}
    /\ resumed_from' = -1
    /\ grad' = [G |-> {}, D |-> {}]
    /\ epochs_run' = << >>
    /\ selected' = << >>

\* a Trainer that has just been constructed, with its data loaded
FreshTrainer ==
    /\ files = EmptyMap
    /\ written_at = EmptyMap
    /\ store = EmptyMap
    /\ restarted = FALSE
    /\ err = ""
    /\ start_epoch = 0
    /\ epoch = 0
    /\ weights = [G |-> 0, D |-> 0]
    /\ optimizer = [G |-> 0, D |-> 0]
    /\ attrs = TrainerFields(model_type)
    /\ sample_info = NoSample
    /\ driving_frames = << >>
    /\ target = << >>
    /\ chunk_size = 0
    /\ chunk_i = 0
    /\ total_v_d = << >>
    /\ v_d = << >>
    /\ motion_encodings = NoTuple
    /\ e_d = NoTuple
    /\ peak = 0
    /\ save_calls = << >>
    /\ log_records = {}
    /\ resumed_from = -1
    /\ output = << >>
    /\ grad = [G |-> {}, D |-> {}]
    /\ io_log = << >>
    /\ epochs_run = << >>
    /\ selected = << >>

Init ==
    /\ model_type \in Variants
    /\ config \in [resume : BOOLEAN, epochs : 0..MaxEpochs,
                   checkpoint_interval : 1..MaxInterval,
                   log_interval : 1..MaxLogInterval]
    /\ num_batches \in 0..MaxBatches
    /\ store_policy \in {"reject", "replace"}
    /\ same_person_pairs = Pool("same", MaxPool)
    /\ different_person_pairs = Pool("different", MaxPool)
    /\ FreshTrainer
    /\ pc = "train"
    /\ i = 0
    /\ iteration = 0
    /\ trace = << >>
    /\ global_iter = 0

\* an uncaught exception ends the run
\* an exception that train() swallows, going on to its log record
Raise_swallowed(exc) == pc' = "log" /\ err' = exc

Raise(exc) == pc' = "failed" /\ err' = exc

\* ------------------------------------------------- checkpoint load / save
\* a load that answers a missing artifact with the state of a new trainer
LoadCheckpoint_default(fs, variant) ==
    LET name == LatestArtifact(variant)
    IN  [ok |-> TRUE, name |-> name,
         state |-> IF name \in DOMAIN fs THEN fs[name]
                   ELSE CheckpointState([G |-> 0, D |-> 0], [G |-> 0, D |-> 0], 0)]

\* load_checkpoint: torch.load of the variant's latest artifact
LoadCheckpoint(fs, variant) ==
    LET name == LatestArtifact(variant)
    IN  IF name \in DOMAIN fs
        THEN [ok |-> TRUE, name |-> name, state |-> fs[name]]
        ELSE [ok |-> FALSE, name |-> name,
              state |-> CheckpointState([G |-> 0, D |-> 0], [G |-> 0, D |-> 0], 0)]

\* train(): start_epoch = 0, or the epoch load_checkpoint returns
TrainBegin ==
    /\ pc = "train"
    /\ IF config.resume
       THEN LET r == LoadCheckpoint(files, model_type)
            IN  IF r.ok
                THEN /\ weights' = r.state.weights
                     /\ optimizer' = [G |-> r.state.optimizer_G,
                                      D |-> r.state.optimizer_D]
                     /\ start_epoch' = r.state.epoch
                     /\ epoch' = r.state.epoch
                     /\ resumed_from' = IF r.name \in DOMAIN written_at
                                        THEN written_at[r.name] ELSE -1
                     /\ pc' = "epoch_loop"
                     /\ err' = err
                ELSE /\ Raise("FileNotFoundError")
                     /\ UNCHANGED << weights, optimizer, start_epoch, epoch,
                                     resumed_from >>
       ELSE /\ start_epoch' = 0
            /\ epoch' = 0
            /\ pc' = "epoch_loop"
            /\ UNCHANGED << weights, optimizer, resumed_from, err >>
    /\ UNCHANGED << envVars, config, files, written_at, store, restarted, i,
                    attrs, localVars, trace, peak, global_iter, save_calls,
                    log_records, output, grad, epochs_run, selected >>

\* range(start_epoch, epochs) yields e while e <= epochs
EpochInRange_inclusive(e, epochs) == e <= epochs

\* range(start_epoch, epochs) yields e while e < epochs
EpochInRange(e, epochs) == e < epochs

\* for epoch in range(start_epoch, epochs)
EpochLoop ==
    /\ pc = "epoch_loop"
    /\ IF EpochInRange(epoch, config.epochs)
       THEN i' = 0 /\ pc' = "iter_loop" /\ epochs_run' = Append(epochs_run, epoch)
       ELSE i' = i /\ pc' = "done" /\ epochs_run' = epochs_run
    /\ UNCHANGED << envVars, config, files, written_at, store, restarted, err,
                    start_epoch, epoch, weights, optimizer, attrs, localVars,
                    trace, peak, global_iter, save_calls, log_records, resumed_from,
                    output, grad, selected >>

\* for i, data in enumerate(train_loader): dispatch on model_type
IterLoop ==
    /\ pc = "iter_loop"
    /\ IF i < num_batches
       THEN /\ iteration' = IterationArg(i, global_iter)
            /\ global_iter' = global_iter + 1
            /\ FreshLocals
            /\ trace' = << >>
            /\ peak' = 0
            /\ pc' = "zero_grad_G"
       ELSE /\ pc' = "epoch_end"
            /\ UNCHANGED << localVars, output, trace, peak, global_iter >>
    /\ UNCHANGED << envVars, config, files, written_at, store, restarted, err,
                    loopVars, weights, optimizer, attrs, save_calls,
                    log_records, resumed_from,
                    grad, epochs_run, selected >>

\* if (epoch + 1) % checkpoint_interval == 0: self.save_checkpoint(epoch + 1)
EpochEnd ==
    /\ pc = "epoch_end"
    /\ IF CheckpointDue(epoch, config.checkpoint_interval)
       THEN LET e == SavedEpoch(epoch)
                name == EpochArtifact(model_type, e)
            IN  /\ files' = SaveCheckpointFile(files, name,
                                CheckpointState(weights, optimizer, e))
                /\ written_at' = Write(written_at, name, epoch)
                /\ save_calls' = Append(save_calls, [epoch |-> epoch, iters |-> i])
       ELSE UNCHANGED << files, written_at, save_calls >>
    /\ epoch' = epoch + 1
    /\ pc' = "epoch_loop"
    /\ UNCHANGED << envVars, config, store, restarted, err, start_epoch, i,
                    weights, optimizer, attrs, localVars, trace, peak,
                    global_iter, log_records, resumed_from,
                    output, grad, epochs_run, selected >>

\* ------------------------------------------------ start of a training step
\* self.optimizer_G.zero_grad()
ZeroGradG ==
    /\ pc = "zero_grad_G"
    /\ trace' = Append(trace, "zero_grad_G")
    /\ grad' = [grad EXCEPT !.G = {}]
    /\ pc' = "sample"
    /\ UNCHANGED << envVars, config, files, written_at, store, restarted, err,
                    loopVars, weights, optimizer, attrs, localVars, peak,
                    global_iter, save_calls, log_records, resumed_from,
                    output, epochs_run, selected >>

\* sample_info = pool[iteration % len(pool)], pool chosen by iteration % 2
SamplePair ==
    /\ pc = "sample"
    /\ LET r == NextPair(iteration, same_person_pairs, different_person_pairs)
       IN  /\ sample_info' = r
           /\ IF r.ok
              THEN /\ selected' = Append(selected,
                                      [epoch |-> epoch, pool |-> r.pool,
                                       index |-> r.index])
                   /\ pc' = "load_video"
                   /\ err' = err
              ELSE Raise(r.exc) /\ selected' = selected
    /\ UNCHANGED << envVars, config, files, written_at, store, restarted,
                    loopVars, weights, optimizer, attrs, iteration,
                    driving_frames, target, chunk_size, chunk_i, total_v_d,
                    v_d, motion_encodings, e_d, trace, peak, global_iter,
                    save_calls, log_records, resumed_from,
                    output, grad, epochs_run, io_log >>

\* driving_frames = dataset.load_video(driving_path), each frame transformed
LoadVideo ==
    /\ pc = "load_video"
    /\ \E n \in 0..MaxFrames : driving_frames' = Clip(n)
    /\ pc' = "stack"
    /\ UNCHANGED << envVars, config, files, written_at, store, restarted, err,
                    loopVars, weights, optimizer, attrs, iteration,
                    sample_info, target, chunk_size, chunk_i, total_v_d, v_d,
                    motion_encodings, e_d, trace, peak, global_iter,
                    save_calls, log_records, resumed_from,
                    output, grad, epochs_run, selected, io_log >>

\* target = torch.stack(driving_frames); base: unsqueeze(0), then flattened
\* to (batch_size * num_frames, ...)
Stack ==
    /\ pc = "stack"
    /\ LET r == TorchStack(driving_frames)
       IN  IF r.ok
           THEN /\ target' = r.value
                /\ pc' = IF model_type = "base" THEN "encode_source" ELSE "forward"
                /\ err' = err
           ELSE /\ Raise("RuntimeError")
                /\ target' = target
    /\ UNCHANGED << envVars, config, files, written_at, store, restarted,
                    loopVars, weights, optimizer, attrs, iteration,
                    sample_info, driving_frames, chunk_size, chunk_i,
                    total_v_d, v_d, motion_encodings, e_d, trace, peak,
                    global_iter, save_calls, log_records, resumed_from,
                    output, grad, epochs_run, selected, io_log >>

\* ------------------------------------------------ base: chunked stages
\* v_s, e_s of the source image; chunk_size = 100 ("adjust as needed"): every
\* chunk size 1..MaxChunkSize is tried against clips of up to MaxFrames frames
EncodeSource ==
    /\ pc = "encode_source"
    /\ \E c \in 1..MaxChunkSize : chunk_size' = c
    /\ chunk_i' = 0
    /\ pc' = "app_chunks"
    /\ UNCHANGED << envVars, config, files, written_at, store, restarted, err,
                    loopVars, weights, optimizer, attrs, iteration,
                    sample_info, driving_frames, target, total_v_d, v_d,
                    motion_encodings, e_d, trace, peak, global_iter,
                    save_calls, log_records, resumed_from,
                    output, grad, epochs_run, selected, io_log >>

\* for i in range(0, target.size(0), chunk_size): encode the slice, save it
\* under its chunk index, release it
AppChunk ==
    /\ pc = "app_chunks"
    /\ IF chunk_i < Len(target)
       THEN LET target_chunk == Slice(target, chunk_i, chunk_i + chunk_size)
                v_d_chunk == AppearanceEncoder(target_chunk)
                r == SaveIntermediate(store, ChunkKey(chunk_i, chunk_size), v_d_chunk)
            IN  /\ peak' = Max(peak, Resident(total_v_d, v_d, motion_encodings, e_d)
                                        + Len(v_d_chunk))
                /\ IF r.ok
                   THEN /\ store' = r.store
                        /\ io_log' = Append(io_log,
                                << "put", ChunkKey(chunk_i, chunk_size) >>)
                        /\ chunk_i' = chunk_i + chunk_size
                        /\ pc' = pc
                        /\ err' = err
                   ELSE /\ Raise("DuplicateKeyError")
                        /\ UNCHANGED << store, chunk_i, io_log >>
       ELSE /\ chunk_i' = 0
            /\ pc' = "app_load"
            /\ UNCHANGED << store, peak, err, io_log >>
    /\ UNCHANGED << envVars, config, files, written_at, restarted, loopVars,
                    weights, optimizer, attrs, iteration, sample_info,
                    driving_frames, target, chunk_size, total_v_d, v_d,
                    motion_encodings, e_d, trace, global_iter, save_calls,
                    log_records, resumed_from,
                    output, grad, epochs_run, selected >>

\* for i in range(0, target.size(0), chunk_size): load the chunk onto the
\* device and append it to total_v_d (the list keeps it alive)
AppLoad ==
    /\ pc = "app_load"
    /\ IF chunk_i < Len(target)
       THEN LET r == LoadIntermediate(store, ChunkLoadKey(chunk_i, chunk_size))
            IN  IF r.ok
                THEN /\ total_v_d' = Append(total_v_d, r.tensor)
                     /\ io_log' = Append(io_log,
                                << "get", ChunkLoadKey(chunk_i, chunk_size) >>)
                     /\ peak' = Max(peak, Resident(total_v_d', v_d,
                                                   motion_encodings, e_d))
                     /\ chunk_i' = chunk_i + chunk_size
                     /\ pc' = pc
                     /\ err' = err
                ELSE /\ Raise("FileNotFoundError")
                     /\ UNCHANGED << total_v_d, peak, chunk_i, io_log >>
       ELSE /\ pc' = "reassemble"
            /\ UNCHANGED << total_v_d, peak, chunk_i, err, io_log >>
    /\ UNCHANGED << envVars, config, files, written_at, store, restarted,
                    loopVars, weights, optimizer, attrs, iteration,
                    sample_info, driving_frames, target, chunk_size, v_d,
                    motion_encodings, e_d, trace, global_iter, save_calls,
                    log_records, resumed_from,
                    output, grad, epochs_run, selected >>

\* if total_v_d: v_d = torch.cat(total_v_d).view(batch_size, num_frames, ...)
\* else: print("Error: total_v_d is empty ...") and return
Reassemble ==
    /\ pc = "reassemble"
    /\ IF total_v_d # << >>
       THEN /\ v_d' = View(Cat(total_v_d), 1, Len(driving_frames))
            /\ peak' = Max(peak, Resident(total_v_d, v_d', motion_encodings, e_d))
            /\ chunk_i' = 0
            /\ pc' = "motion_chunks"
       ELSE /\ pc' = "log"
            /\ UNCHANGED << v_d, peak, chunk_i >>
    /\ UNCHANGED << envVars, config, files, written_at, store, restarted, err,
                    loopVars, weights, optimizer, attrs, iteration,
                    sample_info, driving_frames, target, chunk_size,
                    total_v_d, motion_encodings, e_d, trace, global_iter,
                    save_calls, log_records, resumed_from,
                    output, grad, epochs_run, selected, io_log >>

\* for i in range(0, target.size(0), chunk_size): run the motion encoder on
\* the slice and save each of its three outputs under (chunk index, j)
MotionChunk ==
    /\ pc = "motion_chunks"
    /\ IF chunk_i < Len(target)
       THEN LET target_chunk == Slice(target, chunk_i, chunk_i + chunk_size)
                e_d_chunk == MotionEncoder(target_chunk)
                r0 == SaveIntermediate(store, MotionKey(chunk_i, chunk_size, 0),
                                       e_d_chunk[1])
                r1 == SaveIntermediate(r0.store, MotionKey(chunk_i, chunk_size, 1),
                                       e_d_chunk[2])
                r2 == SaveIntermediate(r1.store, MotionKey(chunk_i, chunk_size, 2),
                                       e_d_chunk[3])
            IN  /\ peak' = Max(peak, Resident(total_v_d, v_d, motion_encodings, e_d)
                                        + Len(e_d_chunk[1]))
                /\ IF r0.ok /\ r1.ok /\ r2.ok
                   THEN /\ store' = r2.store
                        /\ io_log' = io_log \o
                              [j \in 1..3 |->
                                 << "put", MotionKey(chunk_i, chunk_size, j - 1) >>]
                        /\ chunk_i' = chunk_i + chunk_size
                        /\ pc' = pc
                        /\ err' = err
                   ELSE /\ Raise("DuplicateKeyError")
                        /\ store' = IF ~r0.ok THEN store
                                    ELSE IF ~r1.ok THEN r0.store ELSE r1.store
                        /\ io_log' = io_log \o
                              [j \in 1..(IF ~r0.ok THEN 0 ELSE IF ~r1.ok THEN 1 ELSE 2) |->
                                 << "put", MotionKey(chunk_i, chunk_size, j - 1) >>]
                        /\ chunk_i' = chunk_i
       ELSE /\ chunk_i' = 0
            /\ pc' = "motion_load"
            /\ UNCHANGED << store, peak, err, io_log >>
    /\ UNCHANGED << envVars, config, files, written_at, restarted, loopVars,
                    weights, optimizer, attrs, iteration, sample_info,
                    driving_frames, target, chunk_size, total_v_d, v_d,
                    motion_encodings, e_d, trace, global_iter, save_calls,
                    log_records, resumed_from,
                    output, grad, epochs_run, selected >>

\* for i in range(...): for j in range(3): load (chunk index, j), append it
\* to motion_encodings[j]
MotionLoad ==
    /\ pc = "motion_load"
    /\ IF chunk_i < Len(target)
       THEN LET r == [j \in 1..3 |->
                        LoadIntermediate(store, MotionKey(chunk_i, chunk_size, j - 1))]
            IN  IF \A j \in 1..3 : r[j].ok
                THEN /\ motion_encodings' =
                            [j \in 1..3 |-> Append(motion_encodings[j], r[j].tensor)]
                     /\ io_log' = io_log \o
                           [j \in 1..3 |->
                              << "get", MotionKey(chunk_i, chunk_size, j - 1) >>]
                     /\ peak' = Max(peak, Resident(total_v_d, v_d,
                                                   motion_encodings', e_d))
                     /\ chunk_i' = chunk_i + chunk_size
                     /\ pc' = pc
                     /\ err' = err
                ELSE /\ Raise("FileNotFoundError")
                     /\ UNCHANGED << motion_encodings, peak, chunk_i, io_log >>
       ELSE /\ pc' = "motion_cat"
            /\ UNCHANGED << motion_encodings, peak, chunk_i, err, io_log >>
    /\ UNCHANGED << envVars, config, files, written_at, store, restarted,
                    loopVars, weights, optimizer, attrs, iteration,
                    sample_info, driving_frames, target, chunk_size,
                    total_v_d, v_d, e_d, trace, global_iter, save_calls,
                    log_records, resumed_from,
                    output, grad, epochs_run, selected >>

\* e_d = tuple(torch.cat(motion_encodings[j], dim=0) for j in range(3))
MotionCat ==
    /\ pc = "motion_cat"
    /\ e_d' = [j \in 1..3 |-> Cat(motion_encodings[j])]
    /\ peak' = Max(peak, Resident(total_v_d, v_d, motion_encodings, e_d'))
    /\ pc' = "forward"
    /\ UNCHANGED << envVars, config, files, written_at, store, restarted, err,
                    loopVars, weights, optimizer, attrs, iteration,
                    sample_info, driving_frames, target, chunk_size, chunk_i,
                    total_v_d, v_d, motion_encodings, trace, global_iter,
                    save_calls, log_records, resumed_from,
                    output, grad, epochs_run, selected, io_log >>

\* ------------------------------------------------- two-phase optimisation
\* the base step wraps backward / step in self.scaler (mixed precision)
UsesScaler(variant) == variant = "base"

ScalerMissing == UsesScaler(model_type) /\ "scaler" \notin attrs

phaseUnchanged == << envVars, config, files, written_at, store, restarted,
                     loopVars, localVars, peak, global_iter, save_calls,
                     log_records, resumed_from,
                    epochs_run, selected >>

\* source = source_image.unsqueeze(0): a batch of one image
SourceBatch == << "source" >>

\* output = conv2d(conv3d(warping_generator_s(R_s, t_s, z_s, e_s))) /
\* output = self.model(source): one output per item of the source batch; the
\* driving codes (w_d, v_d_warped) do not enter it
Reconstruct(source) ==
    [k \in 1..Len(source) |-> << "out", source[k] >>]

\* the parameter groups a backward pass through the generator output reaches
OutputReach == {"G"}

\* a detach that leaves the tensor attached to its graph
Detach_noop(reach) == reach

\* output.detach(): a tensor with no graph behind it
Detach(reach) == {}

\* self.discriminator(x): the discriminator's parameters join x's graph
Discriminate(reach) == reach \cup {"D"}

\* loss_adv = adversarial_loss(discriminator(target), discriminator(output))
TotalLossReach == Discriminate(OutputReach)

\* fake_loss = adversarial_loss(discriminator(output.detach()), zeros)
DLossReach == Discriminate(Detach(OutputReach))

\* loss.backward(): the objective's gradient is added to every group it reaches
Backward(g, objective, reach) ==
    [p \in {"G", "D"} |-> IF p \in reach THEN g[p] \cup {objective} ELSE g[p]]

\* reconstruction and generator objective; self.total_loss = ...
Forward ==
    /\ pc = "forward"
    /\ output' = Reconstruct(SourceBatch)
    /\ attrs' = attrs \cup {"total_loss"}
    /\ trace' = Append(trace, "forward_G")
    /\ pc' = "backward_G"
    /\ UNCHANGED << phaseUnchanged, err, weights, optimizer, grad >>

\* self.scaler.scale(self.total_loss).backward() / self.total_loss.backward()
BackwardG ==
    /\ pc = "backward_G"
    /\ IF ScalerMissing
       THEN Raise("AttributeError") /\ UNCHANGED << trace, grad >>
       ELSE /\ trace' = Append(trace, "backward_G")
            /\ grad' = Backward(grad, "total_loss", TotalLossReach)
            /\ pc' = "step_G"
            /\ err' = err
    /\ UNCHANGED << phaseUnchanged, weights, optimizer, attrs, output >>

StepG_also_D ==
    /\ pc = "step_G"
    /\ weights' = [G |-> weights.G + 1, D |-> weights.D + 1]
    /\ optimizer' = [G |-> optimizer.G + 1, D |-> optimizer.D + 1]
    /\ trace' = trace \o << "step_G", "step_D" >>
    /\ pc' = "zero_grad_D"
    /\ UNCHANGED << phaseUnchanged, attrs, err, output, grad >>

\* self.scaler.step(self.optimizer_G); self.scaler.update() / self.optimizer_G.step()
StepG ==
    /\ pc = "step_G"
    /\ IF ScalerMissing
       THEN Raise("AttributeError") /\ UNCHANGED << weights, optimizer, trace >>
       ELSE /\ weights' = [weights EXCEPT !.G = @ + 1]
            /\ optimizer' = [optimizer EXCEPT !.G = @ + 1]
            /\ trace' = Append(trace, "step_G")
            /\ pc' = "zero_grad_D"
            /\ err' = err
    /\ UNCHANGED << phaseUnchanged, attrs, output, grad >>

\* self.optimizer_D.zero_grad()
ZeroGradD ==
    /\ pc = "zero_grad_D"
    /\ trace' = Append(trace, "zero_grad_D")
    /\ grad' = [grad EXCEPT !.D = {}]
    /\ pc' = "objective_D"
    /\ UNCHANGED << phaseUnchanged, err, weights, optimizer, attrs, output >>

\* real_loss, fake_loss on output.detach(); self.d_loss = (real + fake) / 2
ObjectiveD ==
    /\ pc = "objective_D"
    /\ attrs' = attrs \cup {"d_loss"}
    /\ trace' = Append(trace, "objective_D")
    /\ pc' = "backward_D"
    /\ UNCHANGED << phaseUnchanged, err, weights, optimizer, output, grad >>

\* self.scaler.scale(self.d_loss).backward() / self.d_loss.backward()
BackwardD ==
    /\ pc = "backward_D"
    /\ IF ScalerMissing
       THEN Raise("AttributeError") /\ UNCHANGED << trace, grad >>
       ELSE /\ trace' = Append(trace, "backward_D")
            /\ grad' = Backward(grad, "d_loss", DLossReach)
            /\ pc' = "step_D"
            /\ err' = err
    /\ UNCHANGED << phaseUnchanged, weights, optimizer, attrs, output >>

\* self.scaler.step(self.optimizer_D); self.scaler.update() / self.optimizer_D.step()
StepD ==
    /\ pc = "step_D"
    /\ IF ScalerMissing
       THEN Raise("AttributeError") /\ UNCHANGED << weights, optimizer, trace >>
       ELSE /\ weights' = [weights EXCEPT !.D = @ + 1]
            /\ optimizer' = [optimizer EXCEPT !.D = @ + 1]
            /\ trace' = Append(trace, "step_D")
            /\ pc' = "log"
            /\ err' = err
    /\ UNCHANGED << phaseUnchanged, attrs, output, grad >>

\* back in train(): if i % log_interval == 0: logger.info(... total_loss, d_loss)
Log ==
    /\ pc = "log"
    /\ IF i % config.log_interval = 0
       THEN IF {"total_loss", "d_loss"} \subseteq attrs
            THEN /\ log_records' = log_records \cup {<< epoch, i >>}
                 /\ i' = i + 1
                 /\ pc' = "iter_loop"
                 /\ err' = err
            ELSE /\ Raise("AttributeError")
                 /\ UNCHANGED << log_records, i >>
       ELSE /\ i' = i + 1
            /\ pc' = "iter_loop"
            /\ UNCHANGED << log_records, err >>
    /\ UNCHANGED << envVars, config, files, written_at, store, restarted,
                    start_epoch, epoch, weights, optimizer, attrs, localVars,
                    trace, peak, global_iter, save_calls, resumed_from,
                    output, grad, epochs_run, selected >>

\* ------------------------------------------------------ between two runs
Stopped == pc \in {"done", "failed"}

\* an epoch artifact of the variant is made its "latest" artifact
PromoteLatest ==
    /\ Stopped
    /\ ~restarted
    /\ \E name \in DOMAIN files :
          /\ Len(name) = 3
          /\ name = EpochArtifact(model_type, name[3])
          /\ files' = Write(files, LatestArtifact(model_type), files[name])
          /\ written_at' = Write(written_at, LatestArtifact(model_type),
                                 written_at[name])
    /\ UNCHANGED << envVars, config, store, restarted, pc, err, loopVars,
                    weights, optimizer, attrs, localVars, trace, peak,
                    global_iter, save_calls, log_records, resumed_from,
                    output, grad, epochs_run, selected >>

\* __main__: the script is started again on the same directories
Restart ==
    /\ Stopped
    /\ ~restarted
    /\ restarted' = TRUE
    /\ \E r \in BOOLEAN : config' = [config EXCEPT !.resume = r]
    /\ FreshProcess(model_type)
    /\ UNCHANGED << envVars, files, written_at, store >>

Next ==
    \/ TrainBegin \/ EpochLoop \/ IterLoop \/ EpochEnd
    \/ ZeroGradG \/ SamplePair \/ LoadVideo \/ Stack
    \/ EncodeSource \/ AppChunk \/ AppLoad \/ Reassemble
    \/ MotionChunk \/ MotionLoad \/ MotionCat
    \/ Forward \/ BackwardG \/ StepG
    \/ ZeroGradD \/ ObjectiveD \/ BackwardD \/ StepD
    \/ Log \/ PromoteLatest \/ Restart

Spec == Init /\ [][Next]_vars

\* the steps of the running script (a start of the script is not one of them)
RunStep ==
    \/ TrainBegin \/ EpochLoop \/ IterLoop \/ EpochEnd
    \/ ZeroGradG \/ SamplePair \/ LoadVideo \/ Stack
    \/ EncodeSource \/ AppChunk \/ AppLoad \/ Reassemble
    \/ MotionChunk \/ MotionLoad \/ MotionCat
    \/ Forward \/ BackwardG \/ StepG
    \/ ZeroGradD \/ ObjectiveD \/ BackwardD \/ StepD
    \/ Log

\* a single thread of control that is never suspended for ever, over a
\* finite loader: the running script always takes its next step
SpecLive == Init /\ [][Next]_vars /\ WF_vars(RunStep)

\* ------------------------------------------- the pair sampler on its own
\* a training step about to sample, for every iteration index and pool sizes
SamplerInit ==
    /\ model_type \in Variants
    /\ config = [resume |-> FALSE, epochs |-> 1, checkpoint_interval |-> 1,
                 log_interval |-> 1]
    /\ num_batches = MaxIteration + 1
    /\ store_policy = "reject"
    /\ \E ns \in 0..MaxPool, nd \in 0..MaxPool :
          /\ same_person_pairs = Pool("same", ns)
          /\ different_person_pairs = Pool("different", nd)
    /\ FreshTrainer
    /\ pc = "sample"
    /\ i \in 0..MaxIteration
    /\ iteration = IterationArg(i, i)
    /\ trace = << "zero_grad_G" >>
    /\ global_iter = i + 1

SamplerNext == SamplePair

SpecSampler == SamplerInit /\ [][SamplerNext]_vars

\* ------------------------------------- one run over pools of every length
\* a first start of the script without resume, for pools of 0..MaxCoverPool
\* entries and loaders long enough for an index to go twice round a pool
CoverInit ==
    /\ model_type \in Variants
    /\ config \in [resume : {FALSE}, epochs : 1..MaxEpochs,
                    checkpoint_interval : {1}, log_interval : {1}]
    /\ num_batches \in 1..MaxCoverBatches
    /\ store_policy = "reject"
    /\ \E ns \in 0..MaxCoverPool, nd \in 0..MaxCoverPool :
          /\ same_person_pairs = Pool("same", ns)
          /\ different_person_pairs = Pool("different", nd)
    /\ FreshTrainer
    /\ pc = "train"
    /\ i = 0
    /\ iteration = 0
    /\ trace = << >>
    /\ global_iter = 0

SpecCover == CoverInit /\ [][RunStep]_vars

\* ================================================================ claims
IsPrefix(a, b) == Len(a) <= Len(b) /\ a = SubSeq(b, 1, Len(a))

\* positions of a training step after torch.stack has returned
PastStack == {"encode_source", "app_chunks", "app_load", "reassemble",
              "motion_chunks", "motion_load", "motion_cat", "forward",
              "backward_G", "step_G", "zero_grad_D", "objective_D",
              "backward_D", "step_D", "log"}

\* C1: once the appearance stage of a base step has been reassembled, v_d
\* holds, for its single batch row, exactly one code per driving frame, in the
\* order of the flattened driving sequence: the chunks written under their
\* chunk index and read back concatenate to the un-chunked stage output.
C1_ChunkRoundTrip ==
    v_d # << >> =>
        /\ Len(v_d) = 1
        /\ Len(v_d[1]) = Len(target)
        /\ \A k \in 1..Len(target) : v_d[1][k] = << "v", target[k] >>

\* C1 witness: three frames in chunks of two (a full chunk and a short one)
C1_Witness == v_d # << >> /\ Len(target) = 3 /\ chunk_size = 2

\* C2: a base step whose driving sequence is empty never gets past the
\* stacking of the frames: it raises there, so it neither reaches the chunked
\* stages nor returns to the training loop.
C2_EmptyFailsLoudly ==
    (model_type = "base" /\ driving_frames = << >>) => pc \notin PastStack

\* C2 witness: the run has aborted in a base step on an empty driving clip
C2_Witness ==
    /\ model_type = "base"
    /\ driving_frames = << >>
    /\ global_iter > 0
    /\ pc = "failed"
    /\ err = "RuntimeError"

TwoPhaseOrder == << "zero_grad_G", "forward_G", "backward_G", "step_G",
                    "zero_grad_D", "objective_D", "backward_D", "step_D" >>

\* C3: in every variant the optimisation events of an iteration occur in the
\* order zero G, forward G, backward G, step G, zero D, objective D,
\* backward D, step D: what has happened so far is always a prefix of that
\* order (so no step precedes its phase and no optimizer steps twice), and a
\* step that returns to the loop has performed all eight.
C3_TwoPhaseOrdering ==
    /\ IsPrefix(trace, TwoPhaseOrder)
    /\ pc = "log" => trace = TwoPhaseOrder

\* C3 witness: a step has returned after both phases
C3_Witness == pc = "log" /\ trace = TwoPhaseOrder /\ weights.D > 0

\* C4 as stated: the pool follows the parity of the number of iterations the
\* run has started before this one, counted across epochs.
C4_GlobalParity ==
    pc = "load_video" => sample_info.pool = PoolOf(global_iter - 1)

\* C4 amended: the pool follows the parity of the index of the iteration
\* within its epoch (same-person on even i, different-person on odd i), so
\* consecutive iterations of one epoch use different pools.
C4_EpochParity ==
    pc = "load_video" =>
        /\ sample_info.pool = (IF i % 2 = 0 THEN "same" ELSE "different")
        /\ i > 0 => sample_info.pool # PoolOf(i - 1)

\* C4 witness: the first iteration of a later epoch that follows an epoch with
\* an odd number of iterations
C4_Witness ==
    pc = "load_video" /\ i = 0 /\ epoch > start_epoch /\ global_iter % 2 = 0

\* C5: for every iteration index and pool sizes, the sampler picks from the
\* pool chosen by the index's parity; if that pool is empty it raises, and
\* otherwise it does not raise and selects the entry at index
\* iteration mod len(pool), which lies in 0..len(pool)-1.
C5_SamplerBounds ==
    pc # "sample" =>
        LET list == IF iteration % 2 = 0 THEN same_person_pairs
                    ELSE different_person_pairs
        IN  IF Len(list) = 0
            THEN pc = "failed"
            ELSE /\ pc = "load_video"
                 /\ sample_info.index \in 0..(Len(list) - 1)
                 /\ sample_info.index = iteration % Len(list)
                 /\ sample_info.entry = list[sample_info.index + 1]

\* C5 witness: the index has wrapped around a non-empty pool
C5_Witness ==
    pc = "load_video" /\ sample_info.index < iteration /\ sample_info.ok

\* C6: once a checkpoint has been saved for the variant, a later resume loads
\* it: the load finds its artifact and returns the epoch, weights and
\* optimizer states of the newest artifact save wrote.
C6_CheckpointRoundTrip ==
    LET saved == {n \in DOMAIN files :
                     Len(n) = 3 /\ n = EpochArtifact(model_type, n[3])}
        newest == CHOOSE n \in saved : \A m \in saved : m[3] <= n[3]
    IN  (restarted /\ config.resume /\ pc # "train" /\ saved # {}) =>
            /\ err # "FileNotFoundError"
            /\ start_epoch = files[newest].epoch
            /\ pc = "epoch_loop" =>
                  /\ weights = files[newest].weights
                  /\ optimizer.G = files[newest].optimizer_G
                  /\ optimizer.D = files[newest].optimizer_D

\* C7 as stated: the first epoch a resumed run executes is the loop epoch
\* whose end wrote the loaded checkpoint.
C7_RerunsSavedEpoch ==
    (resumed_from >= 0 /\ pc = "iter_loop" /\ epoch = start_epoch) =>
        epoch = resumed_from

\* C7 amended: the loop resumes at the stored value, which is one more than
\* the loop epoch whose end wrote the checkpoint, so a resumed run starts at
\* the following epoch and never executes the saved epoch again.
C7_ResumesAtNextEpoch ==
    resumed_from >= 0 =>
        /\ start_epoch = resumed_from + 1
        /\ epoch >= resumed_from + 1

\* C7 witness: a resumed run is executing its first epoch
C7_Witness ==
    resumed_from >= 0 /\ pc = "iter_loop" /\ epoch = start_epoch /\ num_batches > 0

\* C8: save_checkpoint is called only at the end of a loop epoch e with
\* (e + 1) % checkpoint_interval = 0, after all iterations of e, at most once
\* per epoch, and for every completed such epoch; with interval 1 once per
\* completed epoch.
C8_CheckpointSchedule ==
    /\ \A k \in 1..Len(save_calls) :
          /\ (save_calls[k].epoch + 1) % config.checkpoint_interval = 0
          /\ save_calls[k].iters = num_batches
          /\ save_calls[k].epoch >= start_epoch
          /\ save_calls[k].epoch < epoch
    /\ \A k, l \in 1..Len(save_calls) :
          k < l => save_calls[k].epoch < save_calls[l].epoch
    /\ \A e \in start_epoch..(epoch - 1) :
          (e + 1) % config.checkpoint_interval = 0 =>
              \E k \in 1..Len(save_calls) : save_calls[k].epoch = e
    /\ (config.checkpoint_interval = 1 /\ epoch >= start_epoch) =>
          Len(save_calls) = epoch - start_epoch

\* C8 witness: with interval 2 the first epoch was skipped and the second saved
C8_Witness ==
    /\ config.checkpoint_interval = 2
    /\ num_batches > 0
    /\ Len(save_calls) = 1
    /\ save_calls[1].epoch = 1

\* C9: no put on the intermediate store ever meets a key the store already
\* holds (the keys of the previous step have been cleared before the next
\* step's chunked stage writes).
C9_NoDuplicatePut == err # "DuplicateKeyError"

\* C10: in a base step whose driving sequence is longer than the chunk size,
\* never more than chunk_size frames' worth of stage output is resident on the
\* accelerator at once.
C10_BoundedPeak ==
    (model_type = "base" /\ chunk_size >= 1 /\ chunk_size < Len(target)) =>
        peak <= chunk_size

\* positions in io_log of the operations of one kind on one stage's keys
Ops(kind, stage) ==
    {n \in 1..Len(io_log) : io_log[n][1] = kind /\ io_log[n][2][1] = stage}

\* C11: within one base step no store key is written twice or read twice,
\* every read of a key comes after the write of that key, every key the
\* appearance stage wrote has been read back before the motion stage writes
\* its first key, and once the motion codes are reassembled every key written
\* in the step has been read.
C11_StoreDrained ==
    /\ \A n, m \in 1..Len(io_log) : n # m => io_log[n] # io_log[m]
    /\ \A n \in 1..Len(io_log) :
          io_log[n][1] = "get" =>
              \E m \in 1..(n - 1) : io_log[m] = << "put", io_log[n][2] >>
    /\ \A n \in Ops("put", "e_d_chunk") : \A m \in Ops("put", "v_d_chunk") :
          \E r \in 1..(n - 1) : io_log[r] = << "get", io_log[m][2] >>
    /\ e_d # NoTuple =>
          \A n \in 1..Len(io_log) :
              io_log[n][1] = "put" =>
                  \E m \in 1..Len(io_log) : io_log[m] = << "get", io_log[n][2] >>

\* C11 witness: a base step over two chunks has written and read back both
\* stages (2 + 2 appearance operations, 6 + 6 motion operations)
C11_Witness ==
    /\ model_type = "base"
    /\ e_d # NoTuple
    /\ Cardinality(Ops("put", "v_d_chunk")) = 2
    /\ Cardinality(Ops("get", "v_d_chunk")) = 2
    /\ Cardinality(Ops("put", "e_d_chunk")) = 6
    /\ Cardinality(Ops("get", "e_d_chunk")) = 6

\* number of chunks range(0, n, c) visits
NumChunks(n, c) == (n + c - 1) \div c

\* C12: once the motion stage of a base step has been reassembled, every
\* component j of every chunk has been persisted under its own key
\* (chunk index, j) and holds that component of that chunk, and e_d is a
\* 3-tuple whose j-th element is the j-th component of the un-chunked encoder
\* output: one row per driving frame, in frame order, nothing mixed, dropped
\* or repeated.
C12_TupleArity ==
    e_d # NoTuple =>
        /\ {io_log[n][2] : n \in Ops("put", "e_d_chunk")} =
              {<< "e_d_chunk", k, j >> :
                   k \in 0..(NumChunks(Len(target), chunk_size) - 1), j \in 0..2}
        /\ \A k \in 0..(NumChunks(Len(target), chunk_size) - 1) : \A j \in 0..2 :
              /\ << "e_d_chunk", k, j >> \in DOMAIN store
              /\ store[<< "e_d_chunk", k, j >>] =
                    MotionEncoder(Slice(target, k * chunk_size,
                                        (k + 1) * chunk_size))[j + 1]
        /\ Len(e_d) = 3
        /\ \A j \in 1..3 : e_d[j] = MotionEncoder(target)[j]

\* C12 witness: three frames in chunks of two have gone through the motion stage
C12_Witness ==
    /\ e_d # NoTuple
    /\ Len(target) = 3
    /\ chunk_size = 2
    /\ Len(e_d[3]) = 3

\* C13: a run started with resume while the variant has no latest artifact
\* has failed in load_checkpoint, has entered no epoch, has run no iteration
\* and no optimizer step, has saved nothing, and its weights and optimizer
\* states are those of construction.
C13_CheckpointNotFound ==
    (config.resume /\ LatestArtifact(model_type) \notin DOMAIN files /\ pc # "train") =>
        /\ pc = "failed"
        /\ err = "FileNotFoundError"
        /\ epochs_run = << >>
        /\ global_iter = 0
        /\ trace = << >>
        /\ save_calls = << >>
        /\ weights = [G |-> 0, D |-> 0]
        /\ optimizer = [G |-> 0, D |-> 0]

\* C13 witness: a second run asked to resume finds the epoch artifacts of the
\* first run but no latest artifact, and has failed
C13_Witness ==
    /\ config.resume
    /\ restarted
    /\ files # EmptyMap
    /\ LatestArtifact(model_type) \notin DOMAIN files
    /\ pc = "failed"
    /\ err = "FileNotFoundError"

\* the discriminator phase of a training step
PhaseD == {"zero_grad_D", "objective_D", "backward_D", "step_D"}

\* C14: no step of the discriminator phase (the backward pass of d_loss and
\* the step of optimizer_D included) changes the gradients, the weights or
\* the optimizer state of the generator group, and the step of optimizer_G
\* changes no discriminator weight and no discriminator optimizer state.
C14_DetachIsolation ==
    [][ /\ pc \in PhaseD =>
             /\ grad'.G = grad.G
             /\ weights'.G = weights.G
             /\ optimizer'.G = optimizer.G
        /\ pc = "step_G" =>
             /\ weights'.D = weights.D
             /\ optimizer'.D = optimizer.D ]_vars

\* C14 witness: a step has run both phases: the generator group holds the
\* gradient of total_loss only, the discriminator group that of d_loss only
C14_Witness ==
    /\ pc = "log"
    /\ trace # << >>
    /\ trace[Len(trace)] = "step_D"
    /\ grad = [G |-> {"total_loss"}, D |-> {"d_loss"}]
    /\ weights.G >= 1
    /\ weights.D >= 1

\* C15: an exception raised anywhere in train() ends the run: the run is in
\* its failed state, the iteration (epoch, i) it failed in has no log record,
\* the epoch it failed in has no checkpoint, and from the failed state the
\* process runs no further iteration, optimizer step, log record or save
\* (only a new start of the script leaves the failed state).
C15_FailureTerminates ==
    /\ [](err # "" =>
            /\ pc = "failed"
            /\ << epoch, i >> \notin log_records
            /\ \A k \in 1..Len(save_calls) : save_calls[k].epoch # epoch)
    /\ [][ pc = "failed" =>
              \/ (~restarted /\ restarted' /\ pc' = "train")
              \/ /\ pc' = "failed"
                 /\ global_iter' = global_iter
                 /\ trace' = trace
                 /\ weights' = weights
                 /\ optimizer' = optimizer
                 /\ log_records' = log_records
                 /\ save_calls' = save_calls ]_vars

\* C15 witness: the second iteration of the second epoch has failed on an
\* empty clip, after a logged first iteration and a saved first epoch
C15_Witness ==
    /\ pc = "failed"
    /\ err = "RuntimeError"
    /\ epoch = 1
    /\ i = 1
    /\ << 1, 0 >> \in log_records
    /\ Len(save_calls) = 1
    /\ save_calls[1].epoch = 0

\* C16: a run starts at epoch 0, or at the epoch of the latest artifact when
\* it resumes; the epochs it enters are start, start + 1, ... in ascending
\* order, each once, never beyond epochs - 1, and a finished run has entered
\* all of them; a run with start >= epochs finishes without an iteration or
\* a save; and every run that does not fail eventually finishes.
C16_LoopProgress ==
    /\ []((pc # "train" /\ ~config.resume) => start_epoch = 0)
    /\ []((pc \notin {"train", "failed"} /\ config.resume) =>
             /\ LatestArtifact(model_type) \in DOMAIN files
             /\ start_epoch = files[LatestArtifact(model_type)].epoch)
    /\ [](\A k \in 1..Len(epochs_run) :
             /\ epochs_run[k] = start_epoch + k - 1
             /\ epochs_run[k] <= config.epochs - 1)
    /\ [](pc = "done" =>
             Len(epochs_run) = Max(0, config.epochs - start_epoch))
    /\ []((pc = "done" /\ start_epoch >= config.epochs) =>
             (global_iter = 0 /\ save_calls = << >>))
    /\ (pc = "train") ~> (pc = "done" \/ pc = "failed")

\* C16 witness: a resumed run has started at the loaded epoch 1, has run it
\* with at least one iteration, and is done
C16_Witness ==
    /\ restarted
    /\ config.resume
    /\ pc = "done"
    /\ start_epoch = 1
    /\ epochs_run = << 1 >>
    /\ global_iter >= 1

\* C17: after the reconstruction of a base step, output holds one image per
\* driving frame (as many as the flattened target the loss compares it with).
C17_OutputPerFrame ==
    (model_type = "base" /\ output # << >>) => Len(output) = Len(target)

\* chunk indices a stage of the current step has written
Written(stage) == {io_log[n][2][2] : n \in Ops("put", stage)}

\* positions of a base step after the appearance write loop / the motion
\* write loop has ended
AppWritten == {"app_load", "reassemble", "motion_chunks", "motion_load",
               "motion_cat", "forward", "backward_G"}
MotionWritten == {"motion_load", "motion_cat", "forward", "backward_G"}

\* the chunks 0..m-1 with m = ceil(N / c), written as the set ks
IsPartitionIndexSet(ks, N, c) ==
    LET m == Cardinality(ks)
    IN  /\ ks = 0..(m - 1)
        /\ m * c >= N
        /\ (m - 1) * c < N
        /\ c >= N => m = 1

\* C18: when a chunked stage of a base step over N >= 1 frames with chunk
\* size c has ended, it has written the chunks 0..ceil(N/c)-1 and no other,
\* chunk k holds the stage output of exactly the frames k*c .. min((k+1)c,N)-1
\* in order (so the chunks are contiguous, disjoint, cover every frame once
\* and only the last may be short), and c >= N gives a single chunk.
C18_ChunkPartition ==
    /\ (model_type = "base" /\ pc \in AppWritten) =>
          /\ IsPartitionIndexSet(Written("v_d_chunk"), Len(target), chunk_size)
          /\ \A k \in Written("v_d_chunk") :
                LET lo == k * chunk_size
                    hi == Min((k + 1) * chunk_size, Len(target))
                IN  /\ Len(store[<< "v_d_chunk", k >>]) = hi - lo
                    /\ \A r \in 1..(hi - lo) :
                          store[<< "v_d_chunk", k >>][r] = << "v", target[lo + r] >>
    /\ (model_type = "base" /\ pc \in MotionWritten) =>
          /\ IsPartitionIndexSet(Written("e_d_chunk"), Len(target), chunk_size)
          /\ \A k \in Written("e_d_chunk") :
                LET lo == k * chunk_size
                    hi == Min((k + 1) * chunk_size, Len(target))
                IN  /\ Len(store[<< "e_d_chunk", k, 0 >>]) = hi - lo
                    /\ \A r \in 1..(hi - lo) :
                          store[<< "e_d_chunk", k, 0 >>][r] = << "R", target[lo + r] >>

\* C18 witness: three frames in chunks of two, both stages written: a full
\* chunk 0 and a short chunk 1
C18_Witness ==
    /\ model_type = "base"
    /\ pc = "motion_load"
    /\ Len(target) = 3
    /\ chunk_size = 2
    /\ Written("v_d_chunk") = {0, 1}
    /\ Written("e_d_chunk") = {0, 1}

\* C19: a base step never reads a trainer field that setup did not create:
\* no base run ends in an AttributeError.
C19_SetupComplete == ~(model_type = "base" /\ err = "AttributeError")

\* C20: every key a base step reads from the store it has written earlier in
\* the same step, the chunk index of every read is one of the current
\* sequence's chunks, and every tensor read back is the stage output of the
\* current sequence's chunk, whatever keys earlier steps have left in the
\* store.
C20_NoStaleReads ==
    /\ \A n \in 1..Len(io_log) :
          io_log[n][1] = "get" =>
              /\ \E m \in 1..(n - 1) : io_log[m] = << "put", io_log[n][2] >>
              /\ io_log[n][2][2] < NumChunks(Len(target), chunk_size)
    /\ \A k \in 1..Len(total_v_d) :
          total_v_d[k] = AppearanceEncoder(Slice(target, (k - 1) * chunk_size,
                                                 k * chunk_size))
    /\ \A j \in 1..3 : \A k \in 1..Len(motion_encodings[j]) :
          motion_encodings[j][k] =
              MotionEncoder(Slice(target, (k - 1) * chunk_size, k * chunk_size))[j]

\* C20 witness: a step of a later run on a store that replaces held keys has
\* read back both stages of a one-chunk sequence while the store still holds
\* the keys of chunk 1 of an earlier, longer sequence
C20_Witness ==
    /\ restarted
    /\ store_policy = "replace"
    /\ e_d # NoTuple
    /\ NumChunks(Len(target), chunk_size) = 1
    /\ << "v_d_chunk", 1 >> \in DOMAIN store
    /\ << "e_d_chunk", 1, 2 >> \in DOMAIN store

\* the entries of a pool, by the pool's name
PoolList(name) ==
    IF name = "same" THEN same_person_pairs ELSE different_person_pairs

\* the parity of the iteration indices that draw from a pool
PoolParity(name) == IF name = "same" THEN 0 ELSE 1

\* every entry of the pool is picked somewhere in selected[n..n + 2L - 1]
WindowCovers(name, n) ==
    LET L == Len(PoolList(name))
    IN  \A e \in 0..(L - 1) :
            \E m \in n..(n + 2 * L - 1) :
                selected[m].pool = name /\ selected[m].index = e

\* windows of 2 * len(pool) consecutive iterations of the run, for a pool of
\* odd length
OddWindows(name) ==
    LET L == Len(PoolList(name))
    IN  IF L % 2 = 1
        THEN {n \in 1..Len(selected) : n + 2 * L - 1 <= Len(selected)}
        ELSE {}

\* every pick from a pool of even length has the pool's parity
EvenPoolParity ==
    \A n \in 1..Len(selected) :
        Len(PoolList(selected[n].pool)) % 2 = 0 =>
            selected[n].index % 2 = PoolParity(selected[n].pool)

\* C21 as stated: every pick from a pool of even length has an index of the
\* pool's parity (even for the same-person pool, odd for the different-person
\* pool), and any 2 * len(pool) consecutive iterations of a run pick every
\* entry of a pool of odd length.
C21_RunCoverage ==
    /\ EvenPoolParity
    /\ \A name \in {"same", "different"} :
          \A n \in OddWindows(name) : WindowCovers(name, n)

\* C21: every pick from a pool of even length has an index of the pool's
\* parity, and any 2 * len(pool) consecutive iterations of one epoch pick
\* every entry of a pool of odd length.
C21_EpochCoverage ==
    /\ EvenPoolParity
    /\ \A name \in {"same", "different"} :
          \A n \in OddWindows(name) :
              selected[n].epoch =
                  selected[n + 2 * Len(PoolList(name)) - 1].epoch =>
                      WindowCovers(name, n)

\* C21 witness: six iterations of one epoch have gone three times round a
\* same-person pool of three entries, picking each, and have picked only
\* entry 1 of a different-person pool of two
C21_Witness ==
    /\ Len(same_person_pairs) = 3
    /\ Len(different_person_pairs) = 2
    /\ Len(selected) >= 6
    /\ selected[1].epoch = selected[6].epoch
    /\ selected[5].pool = "same"
    /\ selected[5].index = 1
    /\ selected[6].pool = "different"
    /\ selected[6].index = 1

====
